---------------------------- MODULE Spec2Model ----------------------------
(***************************************************************************)
(* Model of the Politician test framework's suite engine (class TestSuite  *)
(* of the reporter-driven engine): counters, accumulators, the verbosity   *)
(* gates and the calls the suite forwards to its reporter.                 *)
(*                                                                         *)
(* JavaScript values are records [t |-> <typeof-like tag>, v |-> <text>].  *)
(* The model records the calls the suite makes on its reporter (variable   *)
(* calls), one list per operation, and the lines the built-in reporters    *)
(* write to the output sink (variable output). Box-drawing glyphs, ANSI    *)
(* escape sequences and the markdown backtick (written ~) are              *)
(* transliterated to ASCII in the rendered lines.                          *)
(***************************************************************************)
EXTENDS Integers, Sequences, FiniteSets, TLC

(***************************************************************************)
(* Bounds of the model                                                     *)
(***************************************************************************)
MaxTests == 2
MaxSections == 2
MaxDuration == 1
MaxOut == 1
MaxAsserts == 1
MaxWidth == 10

(***************************************************************************)
(* VERBOSITY_LEVELS                                                        *)
(***************************************************************************)
SILENT == 0
QUIET == 1
NORMAL == 2
VERBOSE == 3
DEBUG == 4

VERBOSITY_LEVELS == {SILENT, QUIET, NORMAL, VERBOSE, DEBUG}

(***************************************************************************)
(* JavaScript values                                                       *)
(***************************************************************************)
Undefined == [t |-> "undefined", v |-> "undefined"]
Null == [t |-> "null", v |-> "null"]
True == [t |-> "boolean", v |-> "true"]
False == [t |-> "boolean", v |-> "false"]
Func == [t |-> "function", v |-> "f"]
NaN == [t |-> "number", v |-> "NaN"]

Num(s) == [t |-> "number", v |-> s]

Str(s) == [t |-> "string", v |-> s]

Obj(ref) == [t |-> "object", v |-> ref]

Bool(b) == IF b THEN True ELSE False

\* typeof x
TypeOf(x) == IF x.t = "null" THEN "object" ELSE x.t

\* ToBoolean(x), as used by `if (x)` and `x && ...`
Truthy(x) ==
  CASE x.t = "undefined" -> FALSE
    [] x.t = "null" -> FALSE
    [] x.t = "boolean" -> x = True
    [] x.t = "number" -> x.v \notin {"0", "NaN"}
    [] x.t = "string" -> x.v # ""
    [] OTHER -> TRUE

\* a ?? b
NullishCoalesce(a, b) == IF a.t \in {"undefined", "null"} THEN b ELSE a

\* a === b
StrictEquals(a, b) == a = b /\ a # NaN

\* an index of an array that holds no element, as index 0 of [, 1]
Hole == [t |-> "hole", v |-> "undefined"]

\* arrays that exist in the caller's program, by reference
ArrayHeap ==
  [ref \in {"a123", "b123", "a12", "n1", "n2", "i1", "i2", "h1", "d21"} |->
     CASE ref \in {"a123", "b123"} -> <<Num("1"), Num("2"), Num("3")>>
       [] ref = "a12" -> <<Num("1"), Num("2")>>
       [] ref = "n1" -> <<Num("1"), Obj("i1")>>
       [] ref = "n2" -> <<Num("1"), Obj("i2")>>
       [] ref = "h1" -> <<Hole, Num("1")>>
       [] ref = "d21" -> <<Num("2"), Num("1")>>
       [] OTHER -> <<Num("2")>>]

\* arr[i]: reading an index that holds no element gives undefined
Get(arr, i) == IF arr[i] = Hole THEN Undefined ELSE arr[i]

\* Array.isArray(x)
IsArray(x) == x.t = "object" /\ x.v \in DOMAIN ArrayHeap

(***************************************************************************)
(* What an assertion callback does when it is run: it returns val or       *)
(* throws val. When val is an object, passed/actual/expected/message are   *)
(* its properties (Undefined for a property the object does not have).     *)
(***************************************************************************)
Returns(val) ==
  [val |-> val, how |-> "return", passed |-> Undefined, actual |-> Undefined,
   expected |-> Undefined, message |-> Undefined]

ReturnsObject(p, a, e, m) ==
  [val |-> Obj("result"), how |-> "return", passed |-> p, actual |-> a,
   expected |-> e, message |-> m]

Throws(val) ==
  [val |-> val, how |-> "throw", passed |-> Undefined, actual |-> Undefined,
   expected |-> Undefined, message |-> Undefined]

ThrowsError(m) ==
  [val |-> Obj("error"), how |-> "throw", passed |-> Undefined,
   actual |-> Undefined, expected |-> Undefined, message |-> m]

Assertions ==
  { Returns(True), Returns(False), Returns(Undefined), Returns(Null),
    Returns(Num("1")), Returns(Str("ok")), Returns(Func),
    ReturnsObject(False, Num("1"), Num("2"), Undefined),
    ReturnsObject(Undefined, Num("1"), Num("1"), Str("m")),
    ReturnsObject(Num("1"), Undefined, Undefined, Undefined),
    ThrowsError(Str("boom")), Throws(Str("boom")), Throws(Null),
    Throws(Undefined) }

Descriptions == {"t1"}

(***************************************************************************)
(* Reporters: Reporter (ASCII), TerminalReporter, MarkdownReporter         *)
(***************************************************************************)
Max(a, b) == IF a >= b THEN a ELSE b

\* s.repeat(n)
RECURSIVE Repeat(_, _)
Repeat(s, n) == IF n <= 0 THEN "" ELSE s \o Repeat(s, n - 1)

\* Reporter._pad with the padding put in front of the text
Pad_Left(str, length) == Repeat(" ", Max(0, length - Len(str))) \o str

\* Reporter._pad(str, length)
Pad(str, length) == str \o Repeat(" ", Max(0, length - Len(str)))

\* args.join(' ')
RECURSIVE Join(_)
Join(args) ==
  IF args = <<>> THEN ""
  ELSE IF Len(args) = 1 THEN args[1]
  ELSE args[1] \o " " \o Join(Tail(args))

\* str.split('\n'), for the strings of the model that hold a line break
SplitLines(str) ==
  CASE str = "a\nb" -> <<"a", "b">>
    [] str = "[\n  1,\n  2\n]" -> <<"[", "  1,", "  2", "]">>
    [] OTHER -> <<str>>

\* JSON.stringify of a value that is not an array
JsonScalar(x) ==
  CASE x.t = "string" -> "\"" \o x.v \o "\""
    [] x.t = "number" -> IF x = NaN THEN "null" ELSE x.v
    [] x.t = "boolean" -> x.v
    [] x.t = "object" -> "{}"
    [] OTHER -> "null"

\* JSON.stringify(x, null, 2) as its lines; ind is the indentation of the
\* line that closes x
RECURSIVE JsonLines(_, _)
RECURSIVE JsonElements(_, _, _)
JsonLines(x, ind) ==
  IF IsArray(x)
    THEN IF ArrayHeap[x.v] = <<>>
           THEN <<"[]">>
           ELSE <<"[">> \o JsonElements(ArrayHeap[x.v], 1, ind + 2)
                \o <<Repeat(" ", ind) \o "]">>
    ELSE <<JsonScalar(x)>>

JsonElements(arr, i, ind) ==
  IF i > Len(arr) THEN <<>>
  ELSE LET ls == JsonLines(arr[i], ind)
           indented == <<Repeat(" ", ind) \o ls[1]>> \o Tail(ls)
           n == Len(indented)
           closed == IF i < Len(arr)
                       THEN [indented EXCEPT ![n] = indented[n] \o ","]
                       ELSE indented
       IN closed \o JsonElements(arr, i + 1, ind)

\* Reporter._stringify(value), as the lines of the text it returns
Stringify(value) ==
  IF TypeOf(value) = "string" THEN SplitLines(value.v)
  ELSE IF TypeOf(value) = "object" /\ value # Null THEN JsonLines(value, 0)
  ELSE <<value.v>>

\* the ANSI table of the terminal reporter
ANSI ==
  [RESET |-> "<RESET>", BOLD |-> "<BOLD>", DIM |-> "<DIM>", RED |-> "<RED>",
   GREEN |-> "<GREEN>", YELLOW |-> "<YELLOW>", BLUE |-> "<BLUE>",
   MAGENTA |-> "<MAGENTA>", CYAN |-> "<CYAN>", WHITE |-> "<WHITE>",
   BG_RED |-> "<BG_RED>", BG_GREEN |-> "<BG_GREEN>", BG_YELLOW |-> "<BG_YELLOW>"]

\* a reporter method ran to its end, or raised after writing lines
Wrote(lines) == [lines |-> lines, threw |-> FALSE]

Raised(lines) == [lines |-> lines, threw |-> TRUE]

\* every line of a text with a prefix and a suffix: forEach(line => output(..))
EachLine(pre, lines, post) == [i \in 1..Len(lines) |-> pre \o lines[i] \o post]

\* the default parameter label = 'DIFFERENTIAL ANALYSIS' applies to undefined
DiffLabel(label) ==
  IF label = Undefined THEN Str("DIFFERENTIAL ANALYSIS") ELSE label

\* Reporter.diff(expected, actual, label)
Reporter_diff(expected, actual, label) ==
  LET l == DiffLabel(label)
      expectedStr == Stringify(expected)
      actualStr == Stringify(actual)
  IN IF l = Null
       THEN Raised(<<"">>)
       ELSE Wrote(
         <<"", "+-[ " \o l.v \o " ]" \o Repeat("-", Max(0, 74 - Len(l.v))), "">>
         \o (IF expectedStr = actualStr
               THEN <<"  [NO VARIANCE DETECTED]">>
               ELSE <<"  EXPECTED STATE:">>
                    \o EachLine("  - ", expectedStr, "")
                    \o <<"", "  ACTUAL STATE:">>
                    \o EachLine("  + ", actualStr, ""))
         \o <<"", "+" \o Repeat("-", 79), "">>)

\* TerminalReporter.diff(expected, actual, label)
TerminalReporter_diff(expected, actual, label) ==
  LET l == DiffLabel(label)
      expectedStr == Stringify(expected)
      actualStr == Stringify(actual)
  IN IF l = Null
       THEN Raised(<<"">>)
       ELSE Wrote(
         <<"",
           ANSI.YELLOW \o "+-[ " \o ANSI.BOLD \o l.v \o ANSI.RESET \o ANSI.YELLOW
             \o " ]" \o Repeat("-", Max(0, 74 - Len(l.v))) \o ANSI.RESET,
           "">>
         \o (IF expectedStr = actualStr
               THEN <<"  " \o ANSI.GREEN \o "[NO VARIANCE DETECTED]" \o ANSI.RESET>>
               ELSE <<"  " \o ANSI.CYAN \o "EXPECTED STATE:" \o ANSI.RESET>>
                    \o EachLine("  " \o ANSI.RED \o "- ", expectedStr, ANSI.RESET)
                    \o <<"", "  " \o ANSI.CYAN \o "ACTUAL STATE:" \o ANSI.RESET>>
                    \o EachLine("  " \o ANSI.GREEN \o "+ ", actualStr, ANSI.RESET))
         \o <<"", ANSI.YELLOW \o "+" \o Repeat("-", 79) \o ANSI.RESET, "">>)

\* MarkdownReporter.diff that compares the values instead of their texts
MarkdownReporter_diff_ByValue(expected, actual, label) ==
  LET l == DiffLabel(label)
      expectedStr == Stringify(expected)
      actualStr == Stringify(actual)
  IN Wrote(
       <<"", "### " \o l.v, "">>
       \o (IF StrictEquals(expected, actual)
             THEN <<"**[NO VARIANCE DETECTED]**", "">>
             ELSE <<"**Expected State:**", "", "~~~diff">>
                  \o EachLine("- ", expectedStr, "")
                  \o <<"~~~", "", "**Actual State:**", "", "~~~diff">>
                  \o EachLine("+ ", actualStr, "")
                  \o <<"~~~", "">>))

\* MarkdownReporter.diff(expected, actual, label); `### ${label}` renders a
\* null label as the text null
MarkdownReporter_diff(expected, actual, label) ==
  LET l == DiffLabel(label)
      expectedStr == Stringify(expected)
      actualStr == Stringify(actual)
  IN Wrote(
       <<"", "### " \o l.v, "">>
       \o (IF expectedStr = actualStr
             THEN <<"**[NO VARIANCE DETECTED]**", "">>
             ELSE <<"**Expected State:**", "", "~~~diff">>
                  \o EachLine("- ", expectedStr, "")
                  \o <<"~~~", "", "**Actual State:**", "", "~~~diff">>
                  \o EachLine("+ ", actualStr, "")
                  \o <<"~~~", "">>))

\* log, info, warn, error, success of the three reporters; the terminal and
\* markdown reporters inherit log
Reporter_message(name, args) ==
  CASE name = "log" -> <<Join(args)>>
    [] name = "info" -> <<"[INFO] " \o Join(args)>>
    [] name = "warn" -> <<"[WARN] " \o Join(args)>>
    [] name = "error" -> <<"[ERROR] " \o Join(args)>>
    [] name = "success" -> <<"[SUCCESS] " \o Join(args)>>

TerminalReporter_message(name, args) ==
  CASE name = "log" -> <<Join(args)>>
    [] name = "info" -> <<ANSI.BLUE \o "(i) " \o Join(args) \o ANSI.RESET>>
    [] name = "warn" -> <<ANSI.YELLOW \o "(!) " \o Join(args) \o ANSI.RESET>>
    [] name = "error" -> <<ANSI.RED \o "(x) " \o Join(args) \o ANSI.RESET>>
    [] name = "success" -> <<ANSI.GREEN \o "(v) " \o Join(args) \o ANSI.RESET>>

MarkdownReporter_message(name, args) ==
  CASE name = "log" -> <<Join(args)>>
    [] name = "info" -> <<"(i) " \o Join(args)>>
    [] name = "warn" -> <<"(!) **Warning:** " \o Join(args)>>
    [] name = "error" -> <<"(x) **Error:** " \o Join(args)>>
    [] name = "success" -> <<"(v) " \o Join(args)>>

MessageMethods == {"log", "info", "warn", "error", "success"}

\* JSON.stringify(x) of a value JSON has a text for
RECURSIVE JsonCompact(_)
RECURSIVE JsonCompactElements(_, _)
JsonCompact(x) ==
  IF IsArray(x)
    THEN "[" \o JsonCompactElements(ArrayHeap[x.v], 1) \o "]"
    ELSE JsonScalar(x)

JsonCompactElements(arr, i) ==
  IF i > Len(arr) THEN ""
  ELSE JsonCompact(arr[i]) \o (IF i < Len(arr) THEN "," ELSE "")
       \o JsonCompactElements(arr, i + 1)

\* `${JSON.stringify(x)}`: JSON.stringify gives undefined for undefined and
\* for a function
JsonText(x) ==
  IF x.t \in {"undefined", "function"} THEN "undefined" ELSE JsonCompact(x)

\* testPassed(testId, description) of the three reporters
Reporter_testPassed(testId, description) ==
  <<"[PASS] TEST " \o testId \o ": " \o description>>

TerminalReporter_testPassed(testId, description) ==
  <<ANSI.GREEN \o "v TEST " \o testId \o " PASSED" \o ANSI.RESET \o ": "
      \o description>>

MarkdownReporter_testPassed(testId, description) ==
  <<"- v **TEST " \o testId \o " PASSED**: " \o description>>

\* Reporter.testFailed(testId, description, result)
Reporter_testFailed(testId, description, result) ==
  <<"[FAIL] TEST " \o testId \o ": " \o description>>
  \o (IF Truthy(result.message)
        THEN <<"       Reason: " \o result.message.v>>
        ELSE <<>>)
  \o (IF result.expected # Null /\ result.actual # Null
        THEN <<"       Expected: " \o JsonText(result.expected),
               "       Actual:   " \o JsonText(result.actual)>>
        ELSE <<>>)

\* TerminalReporter.testFailed(testId, description, result)
TerminalReporter_testFailed(testId, description, result) ==
  <<ANSI.RED \o "x TEST " \o testId \o " FAILED" \o ANSI.RESET \o ": "
      \o description>>
  \o (IF Truthy(result.message)
        THEN <<"  " \o ANSI.YELLOW \o "Reason: " \o result.message.v \o ANSI.RESET>>
        ELSE <<>>)
  \o (IF result.expected # Null /\ result.actual # Null
        THEN <<"  " \o ANSI.CYAN \o "Expected: " \o JsonText(result.expected)
                 \o ANSI.RESET,
               "  " \o ANSI.MAGENTA \o "Actual:   " \o JsonText(result.actual)
                 \o ANSI.RESET>>
        ELSE <<>>)

\* MarkdownReporter.testFailed(testId, description, result)
MarkdownReporter_testFailed(testId, description, result) ==
  <<"- x **TEST " \o testId \o " FAILED**: " \o description>>
  \o (IF Truthy(result.message)
        THEN <<"  - Reason: " \o result.message.v>>
        ELSE <<>>)
  \o (IF result.expected # Null /\ result.actual # Null
        THEN <<"  - Expected: ~" \o JsonText(result.expected) \o "~",
               "  - Actual: ~" \o JsonText(result.actual) \o "~">>
        ELSE <<>>)

\* one call on reporter rep: what it writes and whether it raises; the
\* injected recorder writes nothing. The layout of diff, of testPassed and
\* testFailed and of the five message methods is rendered line by line; what
\* any other method writes is one line that names the method.
Render(rep, c) ==
  CASE rep = "custom" -> Wrote(<<>>)
    [] rep = "ascii" /\ c.name = "diff" ->
         Reporter_diff(c.args[1], c.args[2], c.args[3])
    [] rep = "terminal" /\ c.name = "diff" ->
         TerminalReporter_diff(c.args[1], c.args[2], c.args[3])
    [] rep = "markdown" /\ c.name = "diff" ->
         MarkdownReporter_diff(c.args[1], c.args[2], c.args[3])
    [] rep = "ascii" /\ c.name = "testPassed" ->
         Wrote(Reporter_testPassed(c.args[1], c.args[2]))
    [] rep = "terminal" /\ c.name = "testPassed" ->
         Wrote(TerminalReporter_testPassed(c.args[1], c.args[2]))
    [] rep = "markdown" /\ c.name = "testPassed" ->
         Wrote(MarkdownReporter_testPassed(c.args[1], c.args[2]))
    [] rep = "ascii" /\ c.name = "testFailed" ->
         Wrote(Reporter_testFailed(c.args[1], c.args[2], c.args[3]))
    [] rep = "terminal" /\ c.name = "testFailed" ->
         Wrote(TerminalReporter_testFailed(c.args[1], c.args[2], c.args[3]))
    [] rep = "markdown" /\ c.name = "testFailed" ->
         Wrote(MarkdownReporter_testFailed(c.args[1], c.args[2], c.args[3]))
    [] rep = "ascii" /\ c.name \in MessageMethods ->
         Wrote(Reporter_message(c.name, c.args))
    [] rep = "terminal" /\ c.name \in MessageMethods ->
         Wrote(TerminalReporter_message(c.name, c.args))
    [] rep = "markdown" /\ c.name \in MessageMethods ->
         Wrote(MarkdownReporter_message(c.name, c.args))
    [] OTHER -> Wrote(<<"<" \o c.name \o ">">>)

\* the calls of cs that go to the reporter
ReporterCalls(cs) == SelectSeq(cs, LAMBDA c : c.tgt = "reporter")

\* the lines the reporter calls of cs write, in order
RECURSIVE Emit(_, _)
Emit(rep, cs) ==
  IF ReporterCalls(cs) = <<>> THEN <<>>
  ELSE Render(rep, Head(ReporterCalls(cs))).lines \o Emit(rep, Tail(ReporterCalls(cs)))

(***************************************************************************)
(* State                                                                   *)
(***************************************************************************)
VARIABLES
  options,        \* the constructor's options and the process arguments
  reporter,       \* this.reporter: "custom", "ascii", "terminal" or "markdown"
  output,         \* lines the last operation wrote to the output sink
  verbosity,      \* this.verbosity
  testNumber,     \* this.testNumber
  sectionNumber,  \* this.sectionNumber
  failures,       \* this.failures
  successes,      \* this.successes
  calls,          \* calls made by the last operation, in order
  last,           \* the last operation: name, how it ended, Result it built
  exitCode,       \* status the process was terminated with, -1 while running
  nTests,         \* number of test() invocations so far
  nSections,      \* number of section() invocations so far
  sinceSection,   \* number of test() invocations since the last section()
  nFailing        \* number of test() invocations that built a failing Result

vars ==
  <<options, reporter, output, verbosity, testNumber, sectionNumber, failures,
    successes, calls, last, exitCode, nTests, nSections, sinceSection, nFailing>>

Running == exitCode = -1

NoResult ==
  [passed |-> Undefined, actual |-> Undefined, expected |-> Undefined,
   message |-> Undefined, description |-> "", id |-> ""]

NoAssertion ==
  [val |-> Undefined, how |-> "none", passed |-> Undefined, actual |-> Undefined,
   expected |-> Undefined, message |-> Undefined]

\* the value an operation hands back to its caller, by the way it ended
ReturnValue(how) ==
  CASE how = "this" -> Obj("suite")
    [] how = "true" -> True
    [] how = "false" -> False
    [] OTHER -> Undefined

\* an operation other than test(): its name and how it ended
Ended(op, how) ==
  [value |-> ReturnValue(how), result |-> NoResult, op |-> op, ended |-> how,
   assertion |-> NoAssertion]

\* a call on the reporter, on the suite itself, or on the process
Call(tgt, name, args) == [args |-> args, name |-> name, tgt |-> tgt]

\* the reporter writes the lines of the calls the operation forwarded to it
Sink == output' = Emit(reporter, calls')

(***************************************************************************)
(* constructor                                                             *)
(***************************************************************************)
VerbosityOptions ==
  {[v |-> 0, given |-> FALSE]} \cup {[v |-> n, given |-> TRUE] : n \in VERBOSITY_LEVELS}

\* ConstructVerbosity with || in the place of ??: every falsy level defaults
ConstructVerbosity_Or(o) == IF o.given /\ o.v # 0 THEN o.v ELSE VERBOSE

\* options.verbosity ?? VERBOSITY_LEVELS.VERBOSE
ConstructVerbosity(o) == IF o.given THEN o.v ELSE VERBOSE

\* A process argument is the sequence of its maximal runs of characters other
\* than "=", with every "=" a piece of its own: --format=markdown is
\* <<"--format", "=", "markdown">>.
\* arg.startsWith('--format=')
StartsWithFormat(arg) == Len(arg) >= 2 /\ arg[1] = "--format" /\ arg[2] = "="

\* arg.split('=')
RECURSIVE SplitEquals(_)
SplitEquals(arg) ==
  IF arg = <<>>
    THEN <<"">>
    ELSE LET rest == SplitEquals(Tail(arg))
         IN IF Head(arg) = "="
              THEN <<"">> \o rest
              ELSE <<Head(arg) \o Head(rest)>> \o Tail(rest)

\* argv.find(arg => arg.startsWith('--format=')): index of the first match, 0
\* when there is none
FindFormatArg(argv) ==
  IF \E i \in 1..Len(argv) : StartsWithFormat(argv[i])
    THEN CHOOSE i \in 1..Len(argv) :
           /\ StartsWithFormat(argv[i])
           /\ \A j \in 1..(i - 1) : ~StartsWithFormat(argv[j])
    ELSE 0

parseFormat(argv) ==
  IF FindFormatArg(argv) # 0
    THEN Str(SplitEquals(argv[FindFormatArg(argv)])[2])
    ELSE Str("terminal")

\* createReporter whose default case is the ASCII reporter
createReporter_DefaultAscii(format) ==
  CASE format = Str("markdown") -> "markdown"
    [] format = Str("terminal") -> "terminal"
    [] format = Str("ascii") -> "ascii"
    [] OTHER -> "ascii"

\* the class createReporter instantiates
createReporter(format) ==
  CASE format = Str("markdown") -> "markdown"
    [] format = Str("terminal") -> "terminal"
    [] format = Str("ascii") -> "ascii"
    [] OTHER -> "terminal"

\* options.reporter ?? createReporter(options.format ?? parseFormat(), metadata)
ConstructReporter(o) ==
  IF o.reporter.t \in {"undefined", "null"}
    THEN createReporter(IF o.format.t \in {"undefined", "null"}
                          THEN parseFormat(o.argv)
                          ELSE o.format)
    ELSE "custom"

\* new TestSuite(name, o), run with the process arguments o.argv
Construct(o) ==
  /\ options = o
  /\ reporter = ConstructReporter(o)
  /\ output = <<>>
  /\ verbosity = ConstructVerbosity(o)
  /\ testNumber = 0
  /\ sectionNumber = 0
  /\ failures = <<>>
  /\ successes = <<>>
  /\ calls = <<>>
  /\ last = Ended("constructor", "this")
  /\ exitCode = -1
  /\ nTests = 0
  /\ nSections = 0
  /\ sinceSection = 0
  /\ nFailing = 0

\* options that inject a reporter object, which records the calls it receives
\* and writes nothing
RecorderOptions ==
  {[v |-> o.v, reporter |-> Obj("recorder"), given |-> o.given, argv |-> <<>>,
    format |-> Undefined] : o \in VerbosityOptions}

Init == \E o \in RecorderOptions : Construct(o)

(***************************************************************************)
(* section(title)                                                          *)
(***************************************************************************)
Titles == {"T"}

\* section that starts its accumulators afresh
section_ClearsAccumulators(title) ==
  /\ Running
  /\ nSections < MaxSections
  /\ IF verbosity < NORMAL
       THEN /\ UNCHANGED <<sectionNumber, testNumber>>
            /\ calls' = <<>>
       ELSE /\ sectionNumber' = sectionNumber + 1
            /\ testNumber' = 0
            /\ calls' = <<Call("reporter", "section", <<sectionNumber + 1, title>>)>>
  /\ Sink
  /\ last' = Ended("section", "this")
  /\ nSections' = nSections + 1
  /\ sinceSection' = 0
  /\ failures' = <<>>
  /\ successes' = <<>>
  /\ UNCHANGED <<options, reporter, verbosity, exitCode, nTests, nFailing>>

section(title) ==
  /\ Running
  /\ nSections < MaxSections
  /\ IF verbosity < NORMAL
       THEN /\ UNCHANGED <<sectionNumber, testNumber>>
            /\ calls' = <<>>
       ELSE /\ sectionNumber' = sectionNumber + 1
            /\ testNumber' = 0
            /\ calls' = <<Call("reporter", "section", <<sectionNumber + 1, title>>)>>
  /\ Sink
  /\ last' = Ended("section", "this")
  /\ nSections' = nSections + 1
  /\ sinceSection' = 0
  /\ UNCHANGED <<options, reporter, verbosity, failures, successes, exitCode, nTests,
                 nFailing>>

(***************************************************************************)
(* test(description, assertion)                                            *)
(***************************************************************************)
\* TestId without the section number
TestId_NoSection(sec, num) == ToString(num)

\* `${this.sectionNumber}.${this.testNumber}`
TestId(sec, num) == ToString(sec) \o "." \o ToString(num)

NewResult(id, description) ==
  [passed |-> False, actual |-> Null, expected |-> Null, message |-> Null,
   description |-> description, id |-> id]

\* Classify without the `?? false` default of the passed field
Classify_NoDefault(result, a) ==
  IF TypeOf(a.val) = "boolean"
    THEN [result EXCEPT !.passed = a.val]
    ELSE IF Truthy(a.val) /\ TypeOf(a.val) = "object"
      THEN [result EXCEPT !.passed = a.passed,
                          !.actual = a.actual,
                          !.expected = a.expected,
                          !.message = a.message]
      ELSE result

\* the try block: classification of the value the assertion returned
Classify(result, a) ==
  IF TypeOf(a.val) = "boolean"
    THEN [result EXCEPT !.passed = a.val]
    ELSE IF Truthy(a.val) /\ TypeOf(a.val) = "object"
      THEN [result EXCEPT !.passed = NullishCoalesce(a.passed, False),
                          !.actual = a.actual,
                          !.expected = a.expected,
                          !.message = a.message]
      ELSE result

\* CatchFault that drops the fault's message
CatchFault_NoMessage(result, a) ==
  IF a.val.t \in {"null", "undefined"}
    THEN [result |-> [result EXCEPT !.passed = False], escaped |-> TRUE]
    ELSE [result |-> [result EXCEPT !.passed = False], escaped |-> FALSE]

\* the catch block; reading error.message of null or undefined raises a
\* TypeError inside the handler, which leaves test() through its caller
CatchFault(result, a) ==
  IF a.val.t \in {"null", "undefined"}
    THEN [result |-> [result EXCEPT !.passed = False], escaped |-> TRUE]
    ELSE [result |-> [result EXCEPT !.passed = False, !.message = a.message],
          escaped |-> FALSE]

\* try { ... } catch (error) { ... }
RunAssertion(result, a) ==
  IF a.how = "return"
    THEN [result |-> Classify(result, a), escaped |-> FALSE]
    ELSE CatchFault(result, a)

\* TestCalls with failures gated at NORMAL instead of QUIET
TestCalls_FailAtNormal(v, result) ==
  IF Truthy(result.passed)
    THEN IF v >= VERBOSE
           THEN <<Call("reporter", "testPassed", <<result.id, result.description>>)>>
           ELSE <<>>
    ELSE IF v >= NORMAL
           THEN <<Call("reporter", "testFailed", <<result.id, result.description, result>>)>>
           ELSE <<>>

\* the reporter calls of test(), gated by verbosity
TestCalls(v, result) ==
  IF Truthy(result.passed)
    THEN IF v >= VERBOSE
           THEN <<Call("reporter", "testPassed", <<result.id, result.description>>)>>
           ELSE <<>>
    ELSE IF v >= QUIET
           THEN <<Call("reporter", "testFailed", <<result.id, result.description, result>>)>>
           ELSE <<>>

\* body of test(); op names the public method the caller used and pre the
\* calls that method made before its callback ran
TestBody(op, pre, description, a) ==
  LET id == TestId(sectionNumber, testNumber + 1)
      r == RunAssertion(NewResult(id, description), a)
  IN /\ testNumber' = testNumber + 1
     /\ IF r.escaped
          THEN /\ UNCHANGED <<successes, failures>>
               /\ calls' = pre
               /\ last' = [value |-> Undefined, result |-> r.result, op |-> op,
                           ended |-> "TypeError", assertion |-> a]
               /\ UNCHANGED nFailing
          ELSE /\ IF Truthy(r.result.passed)
                    THEN /\ successes' = Append(successes, r.result)
                         /\ UNCHANGED <<failures, nFailing>>
                    ELSE /\ failures' = Append(failures, r.result)
                         /\ nFailing' = nFailing + 1
                         /\ UNCHANGED successes
               /\ calls' = pre \o TestCalls(verbosity, r.result)
               /\ last' = [value |-> Obj("suite"), result |-> r.result, op |-> op,
                           ended |-> "this", assertion |-> a]
     /\ Sink
     /\ nTests' = nTests + 1
     /\ sinceSection' = sinceSection + 1
     /\ UNCHANGED <<options, reporter, verbosity, sectionNumber, exitCode, nSections>>

test(description, a) ==
  /\ Running
  /\ nTests < MaxTests
  /\ TestBody("test", <<>>, description, a)

(***************************************************************************)
(* assertEqual, assertArraysEqual                                          *)
(***************************************************************************)
\* the arrow function arraysEqual of assertArraysEqual; every() calls its
\* callback only for the indexes of a that hold an element
arraysEqual(a, b) ==
  /\ IsArray(a)
  /\ IsArray(b)
  /\ Len(ArrayHeap[a.v]) = Len(ArrayHeap[b.v])
  /\ \A i \in 1..Len(ArrayHeap[a.v]) :
       \/ ArrayHeap[a.v][i] = Hole
       \/ StrictEquals(ArrayHeap[a.v][i], Get(ArrayHeap[b.v], i))

\* EqualAssertion that compares with == : the number 1 equals the string "1"
EqualAssertion_Loose(actual, expected) ==
  ReturnsObject(Bool(StrictEquals(actual, expected) \/ actual.v = expected.v),
                actual, expected,
                IF StrictEquals(actual, expected) \/ actual.v = expected.v
                  THEN Null
                  ELSE Str("Values do not match"))

\* the callback assertEqual hands to test()
EqualAssertion(actual, expected) ==
  ReturnsObject(Bool(StrictEquals(actual, expected)), actual, expected,
                IF StrictEquals(actual, expected) THEN Null
                ELSE Str("Values do not match"))

\* the callback assertArraysEqual hands to test()
ArraysEqualAssertion(actual, expected) ==
  ReturnsObject(Bool(arraysEqual(actual, expected)), actual, expected,
                IF arraysEqual(actual, expected) THEN Null
                ELSE Str("Arrays do not match"))

EqualArguments == { <<Num("1"), Num("1")>>, <<Num("1"), Str("1")>> }

ArraysArguments ==
  { <<Obj("a123"), Obj("b123")>>, <<Obj("n1"), Obj("n2")>> }

assertEqual(actual, expected, description) ==
  /\ Running
  /\ nTests < MaxTests
  /\ TestBody("assertEqual", <<Call("this", "test", <<description>>)>>,
              description, EqualAssertion(actual, expected))

assertArraysEqual(actual, expected, description) ==
  /\ Running
  /\ nTests < MaxTests
  /\ TestBody("assertArraysEqual", <<Call("this", "test", <<description>>)>>,
              description, ArraysEqualAssertion(actual, expected))

(***************************************************************************)
(* summary(), exit()                                                       *)
(***************************************************************************)
Digit(n) == ToString(n)

\* x.toFixed(2) for x = 100 * num / den, den > 0
ToFixed2(num, den) ==
  LET h == (2 * 10000 * num + den) \div (2 * den)
  IN ToString(h \div 100) \o "." \o Digit((h % 100) \div 10) \o Digit(h % 10)

\* total > 0 ? ((passed / total) * 100).toFixed(2) : 0
PassRate(passed, total) ==
  IF total > 0 THEN Str(ToFixed2(passed, total)) ELSE Num("0")

Stats(succ, fails, duration) ==
  [passed |-> Len(succ), total |-> Len(succ) + Len(fails), duration |-> duration,
   failed |-> Len(fails),
   passRate |-> PassRate(Len(succ), Len(succ) + Len(fails))]

\* SummaryReturn that reports success whenever rendering is skipped
SummaryReturn_QuietAlwaysTrue(v, fails) ==
  IF v < NORMAL THEN TRUE ELSE Len(fails) = 0

\* the value summary() returns: this.failures.length === 0 below NORMAL,
\* failed === 0 otherwise
SummaryReturn(v, fails) ==
  IF v < NORMAL THEN Len(fails) = 0 ELSE Len(fails) = 0

\* SummaryCalls with failureDetails gated at NORMAL instead of VERBOSE
SummaryCalls_DetailsAtNormal(v, succ, fails, duration) ==
  IF v < NORMAL
    THEN <<>>
    ELSE <<Call("reporter", "summary", <<Stats(succ, fails, duration)>>)>>
         \o (IF v >= NORMAL /\ Len(fails) > 0
               THEN <<Call("reporter", "failureDetails", <<fails>>)>>
               ELSE <<>>)

\* the reporter calls of summary(), gated by verbosity
SummaryCalls(v, succ, fails, duration) ==
  IF v < NORMAL
    THEN <<>>
    ELSE <<Call("reporter", "summary", <<Stats(succ, fails, duration)>>)>>
         \o (IF v >= VERBOSE /\ Len(fails) > 0
               THEN <<Call("reporter", "failureDetails", <<fails>>)>>
               ELSE <<>>)

Durations == 0..MaxDuration

\* summary that empties the failure accumulator after reporting it
summary_ClearsFailures(duration) ==
  /\ Running
  /\ calls' = SummaryCalls(verbosity, successes, failures, duration)
  /\ Sink
  /\ last' = Ended("summary", IF SummaryReturn(verbosity, failures) THEN "true" ELSE "false")
  /\ failures' = <<>>
  /\ UNCHANGED <<options, reporter, verbosity, testNumber, sectionNumber,
                 successes, exitCode, nTests, nSections, sinceSection, nFailing>>

summary(duration) ==
  /\ Running
  /\ calls' = SummaryCalls(verbosity, successes, failures, duration)
  /\ Sink
  /\ last' = Ended("summary", IF SummaryReturn(verbosity, failures) THEN "true" ELSE "false")
  /\ UNCHANGED <<options, reporter, verbosity, testNumber, sectionNumber, failures,
                 successes, exitCode, nTests, nSections, sinceSection, nFailing>>

\* ExitStatus with the two codes swapped
ExitStatus_Swapped(success) == IF success THEN 1 ELSE 0

\* success ? 0 : 1
ExitStatus(success) == IF success THEN 0 ELSE 1

exit(duration) ==
  /\ Running
  /\ calls' = <<Call("this", "summary", <<>>)>>
              \o SummaryCalls(verbosity, successes, failures, duration)
              \o <<Call("process", "exit", <<ExitStatus(SummaryReturn(verbosity, failures))>>)>>
  /\ Sink
  /\ exitCode' = ExitStatus(SummaryReturn(verbosity, failures))
  /\ last' = Ended("exit", "exit")
  /\ UNCHANGED <<options, reporter, verbosity, testNumber, sectionNumber, failures,
                 successes, nTests, nSections, sinceSection, nFailing>>

(***************************************************************************)
(* header, subsection, code, javascript, diff, log, info, warn, error,     *)
(* success                                                                 *)
(***************************************************************************)
\* Gate with error rendered from NORMAL upwards only
Gate_ErrorAtNormal(op) ==
  CASE op \in {"header", "subsection", "info", "warn", "error"} -> NORMAL
    [] op \in {"code", "diff", "log", "success"} -> VERBOSE

\* the lowest verbosity at which a method forwards to the reporter
Gate(op) ==
  CASE op \in {"header", "subsection", "info", "warn"} -> NORMAL
    [] op \in {"code", "diff", "log", "success"} -> VERBOSE
    [] op = "error" -> QUIET

\* some reporter call of cs raises on reporter rep
Raises(rep, cs) ==
  \E i \in 1..Len(cs) : cs[i].tgt = "reporter" /\ Render(rep, cs[i]).threw

\* a method that changes no field of the suite: after the calls pre it
\* forwards call when the verbosity reaches gate, and returns this
Forward(op, pre, gate, call) ==
  /\ Running
  /\ calls' = pre \o (IF verbosity >= gate THEN <<call>> ELSE <<>>)
  /\ Sink
  /\ last' = Ended(op, IF Raises(reporter, calls') THEN "TypeError" ELSE "this")
  /\ UNCHANGED <<options, reporter, verbosity, testNumber, sectionNumber, failures,
                 successes, exitCode, nTests, nSections, sinceSection, nFailing>>

\* this.name
SuiteName == "suite"

Languages == {"text"}
Contents == {" x = 1 "}
CodeLabels == {Null, Str("L")}
MessageArguments == {<<"a">>, <<"a", "b">>}

header ==
  Forward("header", <<>>, Gate("header"), Call("reporter", "header", <<SuiteName>>))

\* subsection that forwards the number of the last test
subsection_LastTest(title) ==
  Forward("subsection", <<>>, Gate("subsection"),
          Call("reporter", "subsection", <<sectionNumber, testNumber, title>>))

subsection(title) ==
  Forward("subsection", <<>>, Gate("subsection"),
          Call("reporter", "subsection", <<sectionNumber, testNumber + 1, title>>))

code(language, content, label) ==
  Forward("code", <<>>, Gate("code"),
          Call("reporter", "code", <<language, content, label>>))

javascript(content, label) ==
  Forward("javascript", <<Call("this", "code", <<"javascript", content, label>>)>>,
          Gate("code"), Call("reporter", "code", <<"javascript", content, label>>))

\* the label the caller of the suite's diff passes; an omitted label is null
\* through the default parameter label = null
SuiteDiffArguments ==
  { <<Num("1"), Str("1"), Null>>, <<Obj("a12"), Obj("a123"), Str("L")>>,
    <<Str("a\nb"), Str("a\nb"), Str("L")>> }

diff(expected, actual, label) ==
  Forward("diff", <<>>, Gate("diff"),
          Call("reporter", "diff", <<expected, actual, label>>))

log(args) == Forward("log", <<>>, Gate("log"), Call("reporter", "log", args))

info(args) == Forward("info", <<>>, Gate("info"), Call("reporter", "info", args))

warn(args) == Forward("warn", <<>>, Gate("warn"), Call("reporter", "warn", args))

error(args) == Forward("error", <<>>, Gate("error"), Call("reporter", "error", args))

success(args) ==
  Forward("success", <<>>, Gate("success"), Call("reporter", "success", args))

Next ==
  \/ \E title \in Titles : section(title)
  \/ \E d \in Descriptions, a \in Assertions : test(d, a)
  \/ \E d \in Descriptions, p \in EqualArguments : assertEqual(p[1], p[2], d)
  \/ \E d \in Descriptions, p \in ArraysArguments : assertArraysEqual(p[1], p[2], d)
  \/ \E duration \in Durations : summary(duration)
  \/ \E duration \in Durations : exit(duration)

Spec == Init /\ [][Next]_vars

(***************************************************************************)
(* assertEqual and assertArraysEqual over values of every kind             *)
(***************************************************************************)
EqualValues ==
  {Num("1"), Str("1"), NaN, Null, Undefined, Obj("a123"), Obj("b123")}

ArrayValues ==
  {Obj("a123"), Obj("b123"), Obj("a12"), Obj("n1"), Obj("n2"), Obj("h1"),
   Obj("d21"), Obj("plain"), Str("123"), Null}

NextAssert ==
  \/ \E d \in Descriptions, x \in EqualValues, y \in EqualValues :
       nTests < MaxAsserts /\ assertEqual(x, y, d)
  \/ \E d \in Descriptions, x \in ArrayValues, y \in ArrayValues :
       nTests < MaxAsserts /\ assertArraysEqual(x, y, d)

SpecAssert == Init /\ [][NextAssert]_vars

(***************************************************************************)
(* The suite with its output operations, on the recording reporter and on  *)
(* the three built-in reporters                                            *)
(***************************************************************************)
\* options that leave the choice of the reporter to options.format
FormatOptions ==
  {[v |-> o.v, reporter |-> Undefined, given |-> o.given, argv |-> <<>>,
    format |-> f] :
     o \in VerbosityOptions, f \in {Undefined, Str("markdown"), Str("ascii")}}

\* assertions of the three outcomes of a test: pass, fail, raised fault
OutAssertions ==
  {Returns(True), Returns(False), ThrowsError(Str("boom")), Throws(Null)}

InitOut == \E o \in RecorderOptions \cup FormatOptions : Construct(o)

NextOut ==
  \/ header
  \/ \E title \in Titles : nSections < MaxOut /\ section(title)
  \/ \E title \in Titles : subsection(title)
  \/ \E l \in Languages, c \in Contents, label \in CodeLabels : code(l, c, label)
  \/ \E c \in Contents, label \in CodeLabels : javascript(c, label)
  \/ \E d \in Descriptions, a \in OutAssertions :
       nTests < MaxOut /\ test(d, a)
  \/ \E d \in Descriptions, p \in EqualArguments :
       nTests < MaxOut /\ assertEqual(p[1], p[2], d)
  \/ \E d \in Descriptions, p \in ArraysArguments :
       nTests < MaxOut /\ assertArraysEqual(p[1], p[2], d)
  \/ \E p \in SuiteDiffArguments : diff(p[1], p[2], p[3])
  \/ \E args \in MessageArguments : log(args)
  \/ \E args \in MessageArguments : info(args)
  \/ \E args \in MessageArguments : warn(args)
  \/ \E args \in MessageArguments : error(args)
  \/ \E args \in MessageArguments : success(args)
  \/ \E duration \in Durations : summary(duration)
  \/ \E duration \in Durations : exit(duration)

SpecOut == InitOut /\ [][NextOut]_vars

(***************************************************************************)
(* The constructor over options.reporter, options.format and the process   *)
(* arguments                                                               *)
(***************************************************************************)
\* process.argv after the script name
ProcessArguments ==
  { <<>>,
    << <<"--format", "=", "markdown">> >>,
    << <<"--verbose">>, <<"--format", "=", "ascii">> >>,
    << <<"--format", "=", "bogus">> >>,
    << <<"--format", "=">> >>,
    << <<"--format">>, <<"markdown">> >> }

ReporterOptions == {Undefined, Null, Obj("recorder")}

FormatValues ==
  {Undefined, Null, Str("markdown"), Str("terminal"), Str("ascii"), Str("bogus"),
   Str("")}

CtorOptions ==
  {[v |-> 0, reporter |-> r, given |-> FALSE, argv |-> argv, format |-> f] :
     r \in ReporterOptions, argv \in ProcessArguments, f \in FormatValues}

InitCtor == \E o \in CtorOptions : Construct(o)

NextCtor ==
  \/ header
  \/ \E title \in Titles : subsection(title)
  \/ \E l \in Languages, c \in Contents, label \in CodeLabels : code(l, c, label)
  \/ \E c \in Contents, label \in CodeLabels : javascript(c, label)
  \/ \E d \in Descriptions, a \in OutAssertions : nTests < MaxOut /\ test(d, a)
  \/ \E p \in SuiteDiffArguments : diff(p[1], p[2], p[3])
  \/ \E args \in MessageArguments : log(args)
  \/ \E args \in MessageArguments : info(args)
  \/ \E args \in MessageArguments : warn(args)
  \/ \E args \in MessageArguments : error(args)
  \/ \E args \in MessageArguments : success(args)
  \/ \E duration \in Durations : summary(duration)
  \/ \E duration \in Durations : exit(duration)

SpecCtor == InitCtor /\ [][NextCtor]_vars

(***************************************************************************)
(* The built-in reporters called directly: reporter._pad(str, length) and  *)
(* reporter.diff(expected, actual, label)                                  *)
(***************************************************************************)
PadTexts == {"", "abc", "abcdefghij", "abcdefghijkl"}

PadLengths == -1..MaxWidth

\* the values handed to diff
DiffValues ==
  { Num("1"), Str("1"), Null, Str("null"), Str("a\nb"), Obj("a12"),
    Str("[\n  1,\n  2\n]"), Obj("a123") }

\* the label handed to diff: a text, nothing, or the null the suite forwards
DiffLabels == {Str("L"), Undefined, Null}

\* a method of the reporter called from outside the suite
Direct(name, args, how, value, lines) ==
  /\ Running
  /\ calls' = <<Call("direct", name, args)>>
  /\ output' = lines
  /\ last' = [Ended(name, how) EXCEPT !.value = value]
  /\ UNCHANGED <<options, reporter, verbosity, testNumber, sectionNumber, failures,
                 successes, exitCode, nTests, nSections, sinceSection, nFailing>>

reporter_pad(str, length) ==
  Direct("_pad", <<str, length>>, "return", Str(Pad(str, length)), <<>>)

reporter_diff(expected, actual, label) ==
  LET r == Render(reporter, Call("reporter", "diff", <<expected, actual, label>>))
  IN Direct("reporter.diff", <<expected, actual, label>>,
            IF r.threw THEN "TypeError" ELSE "return", Undefined, r.lines)

\* a suite of each built-in reporter, at the default verbosity
InitReporter == \E o \in {f \in FormatOptions : ~f.given} : Construct(o)

NextReporter ==
  \/ \E str \in PadTexts, length \in PadLengths : reporter_pad(str, length)
  \/ \E e \in DiffValues, a \in DiffValues, label \in DiffLabels :
       reporter_diff(e, a, label)

SpecReporter == InitReporter /\ [][NextReporter]_vars

(***************************************************************************)
(* test() on the built-in reporters, over failing Results of every shape   *)
(***************************************************************************)
RenderAssertions ==
  { Returns(True), Returns(False), ThrowsError(Str("boom")), Throws(Str("boom")),
    ReturnsObject(False, Num("1"), Num("2"), Undefined),
    ReturnsObject(False, Obj("a12"), Obj("a123"), Str("m")),
    ReturnsObject(False, Undefined, Undefined, Str("m")),
    ReturnsObject(False, Undefined, Undefined, Undefined),
    ReturnsObject(False, Num("1"), Undefined, Undefined),
    ReturnsObject(False, Null, Num("2"), Undefined),
    ReturnsObject(False, Null, Null, Str("m")) }

NextRender ==
  \E d \in Descriptions, a \in RenderAssertions : nTests < MaxAsserts /\ test(d, a)

SpecRender == InitOut /\ [][NextRender]_vars

(***************************************************************************)
(* The operations the two engines share, on the recording reporter and on  *)
(* the default built-in one                                                *)
(***************************************************************************)
InitEngines ==
  \E o \in RecorderOptions \cup {f \in FormatOptions : f.format = Undefined} :
    Construct(o)

NextEngines ==
  \/ header
  \/ \E title \in Titles : nSections < MaxOut /\ section(title)
  \/ \E title \in Titles : subsection(title)
  \/ \E l \in Languages, c \in Contents, label \in CodeLabels : code(l, c, label)
  \/ \E c \in Contents, label \in CodeLabels : javascript(c, label)
  \/ \E d \in Descriptions, a \in Assertions :
       nTests < MaxOut /\ test(d, a)
  \/ \E d \in Descriptions, p \in EqualArguments :
       nTests < MaxOut /\ assertEqual(p[1], p[2], d)
  \/ \E d \in Descriptions, p \in ArraysArguments :
       nTests < MaxOut /\ assertArraysEqual(p[1], p[2], d)
  \/ \E args \in MessageArguments : log(args)
  \/ \E args \in MessageArguments : info(args)
  \/ \E args \in MessageArguments : warn(args)
  \/ \E args \in MessageArguments : error(args)
  \/ \E args \in MessageArguments : success(args)
  \/ \E duration \in Durations : summary(duration)

SpecEngines == InitEngines /\ [][NextEngines]_vars

(***************************************************************************)
(* The legacy engine of src/index.js, which writes to the console itself.  *)
(* Each method is a function of the engine's fields: it yields the fields  *)
(* after the call, the number of console.log calls it made and the value   *)
(* it handed back (undefined when a fault left the method).                *)
(***************************************************************************)
\* the fields of an engine whose call made console writes and ended in value
Legacy_Ran(s, console, value) == [s EXCEPT !.value = value, !.console = console]

\* this.testNumber++ and the Result literal of test()
Legacy_NewResult(s, description) ==
  [passed |-> False, actual |-> Null, expected |-> Null, message |-> Null,
   description |-> description,
   id |-> ToString(s.sectionNumber) \o "." \o ToString(s.testNumber + 1)]

Legacy_header(s) ==
  IF s.verbosity < NORMAL THEN Legacy_Ran(s, 0, Obj("suite"))
  ELSE Legacy_Ran(s, 9, Obj("suite"))

\* section that counts at every verbosity
Legacy_section_Always(s) ==
  Legacy_Ran([s EXCEPT !.sectionNumber = s.sectionNumber + 1, !.testNumber = 0],
             IF s.verbosity < NORMAL THEN 0 ELSE 3, Obj("suite"))

Legacy_section(s) ==
  IF s.verbosity < NORMAL THEN Legacy_Ran(s, 0, Obj("suite"))
  ELSE Legacy_Ran([s EXCEPT !.sectionNumber = s.sectionNumber + 1, !.testNumber = 0],
                  3, Obj("suite"))

Legacy_subsection(s) ==
  IF s.verbosity < NORMAL THEN Legacy_Ran(s, 0, Obj("suite"))
  ELSE Legacy_Ran(s, 3, Obj("suite"))

Legacy_code(s, label) ==
  IF s.verbosity < VERBOSE THEN Legacy_Ran(s, 0, Obj("suite"))
  ELSE Legacy_Ran(s, IF Truthy(label) THEN 5 ELSE 4, Obj("suite"))

Legacy_javascript(s, label) == Legacy_code(s, label)

\* the try and catch blocks of test()
Legacy_RunAssertion(result, a) ==
  IF a.how = "return"
    THEN IF TypeOf(a.val) = "boolean"
           THEN [result |-> [result EXCEPT !.passed = a.val], escaped |-> FALSE]
           ELSE IF Truthy(a.val) /\ TypeOf(a.val) = "object"
             THEN [result |-> [result EXCEPT
                                 !.passed = NullishCoalesce(a.passed, False),
                                 !.actual = a.actual,
                                 !.expected = a.expected,
                                 !.message = a.message],
                   escaped |-> FALSE]
             ELSE [result |-> result, escaped |-> FALSE]
    ELSE IF a.val.t \in {"null", "undefined"}
           THEN [result |-> [result EXCEPT !.passed = False], escaped |-> TRUE]
           ELSE [result |-> [result EXCEPT !.passed = False, !.message = a.message],
                 escaped |-> FALSE]

\* the console.log calls of a failing test
Legacy_FailLines(result) ==
  1 + (IF Truthy(result.message) THEN 1 ELSE 0)
    + (IF result.expected # Null /\ result.actual # Null THEN 2 ELSE 0)

Legacy_test(s, description, a) ==
  LET r == Legacy_RunAssertion(Legacy_NewResult(s, description), a)
      n == [s EXCEPT !.testNumber = s.testNumber + 1]
  IN IF r.escaped THEN Legacy_Ran(n, 0, Undefined)
     ELSE IF Truthy(r.result.passed)
       THEN Legacy_Ran([n EXCEPT !.successes = Append(s.successes, r.result)],
                       IF s.verbosity >= VERBOSE THEN 1 ELSE 0, Obj("suite"))
       ELSE Legacy_Ran([n EXCEPT !.failures = Append(s.failures, r.result)],
                       IF s.verbosity >= QUIET THEN Legacy_FailLines(r.result) ELSE 0,
                       Obj("suite"))

Legacy_assertEqual(s, actual, expected, description) ==
  Legacy_test(s, description,
              ReturnsObject(Bool(StrictEquals(actual, expected)), actual, expected,
                            IF StrictEquals(actual, expected) THEN Null
                            ELSE Str("Values do not match")))

\* the arrow function arraysEqual of the legacy assertArraysEqual
Legacy_arraysEqual(a, b) ==
  /\ IsArray(a) /\ IsArray(b)
  /\ Len(ArrayHeap[a.v]) = Len(ArrayHeap[b.v])
  /\ \A i \in 1..Len(ArrayHeap[a.v]) :
       ArrayHeap[a.v][i] # Hole => StrictEquals(ArrayHeap[a.v][i], Get(ArrayHeap[b.v], i))

Legacy_assertArraysEqual(s, actual, expected, description) ==
  Legacy_test(s, description,
              ReturnsObject(Bool(Legacy_arraysEqual(actual, expected)), actual,
                            expected,
                            IF Legacy_arraysEqual(actual, expected) THEN Null
                            ELSE Str("Arrays do not match")))

\* the console.log calls of the FAILED TESTS block of summary()
RECURSIVE Legacy_DetailLines(_)
Legacy_DetailLines(fails) ==
  IF fails = <<>> THEN 0
  ELSE 1 + (IF Truthy(Head(fails).message) THEN 1 ELSE 0)
         + Legacy_DetailLines(Tail(fails))

Legacy_summary(s) ==
  IF s.verbosity < NORMAL
    THEN Legacy_Ran(s, 0, Bool(Len(s.failures) = 0))
    ELSE Legacy_Ran(s,
                    13 + (IF s.verbosity >= VERBOSE /\ Len(s.failures) > 0
                            THEN 2 + Legacy_DetailLines(s.failures) ELSE 0),
                    Bool(Len(s.failures) = 0))

Legacy_log(s) ==
  Legacy_Ran(s, IF s.verbosity >= VERBOSE THEN 1 ELSE 0, Obj("suite"))

Legacy_info(s) ==
  Legacy_Ran(s, IF s.verbosity >= NORMAL THEN 1 ELSE 0, Obj("suite"))

Legacy_warn(s) ==
  Legacy_Ran(s, IF s.verbosity >= NORMAL THEN 1 ELSE 0, Obj("suite"))

Legacy_error(s) ==
  Legacy_Ran(s, IF s.verbosity >= QUIET THEN 1 ELSE 0, Obj("suite"))

Legacy_success(s) ==
  Legacy_Ran(s, IF s.verbosity >= VERBOSE THEN 1 ELSE 0, Obj("suite"))

(***************************************************************************)
(* Properties                                                              *)
(***************************************************************************)
TestOps == {"test", "assertEqual", "assertArraysEqual"}

CountCalls(tgt, name) ==
  Len(SelectSeq(calls, LAMBDA c : c.tgt = tgt /\ c.name = name))

ReporterCallCount ==
  Len(SelectSeq(calls, LAMBDA c : c.tgt = "reporter"))

Nullish(x) == x.t \in {"undefined", "null"}

LastOf(seq) == seq[Len(seq)]

InSeq(x, seq) == \E i \in 1..Len(seq) : seq[i] = x

\* C1: the Nth test() call after the most recent section() call produces a
\* Result whose id is "<number of section() calls so far>.N", at every
\* verbosity level.
C1_IdFollowsSectionCalls ==
  (last.op \in TestOps /\ last.ended = "this")
    => last.result.id = TestId(nSections, sinceSection)

\* C2: every section() call increments sectionNumber by exactly 1 and sets
\* testNumber to 0, whatever the verbosity is.
C2_SectionAlwaysAdvances ==
  [][nSections' = nSections + 1
       => (sectionNumber' = sectionNumber + 1 /\ testNumber' = 0)]_vars

\* C3: at every verbosity level summary() returns true if and only if the
\* failure accumulator is empty, i.e. iff no test() call so far built a
\* failing Result.
C3_SummaryTrueIffNoFailures ==
  last.op = "summary"
    => /\ last.ended \in {"true", "false"}
       /\ (last.ended = "true") <=> (Len(failures) = 0)
       /\ (last.ended = "true") <=> (nFailing = 0)

C3_Witness ==
  /\ last.op = "summary"
  /\ verbosity = SILENT
  /\ last.ended = "false"
  /\ Len(failures) > 0
  /\ Len(successes) > 0

\* C4: whatever value the assertion callback raises, test() returns the suite
\* normally and records exactly one Result, in the failure accumulator.
C4_NoFaultEscapes ==
  (last.op \in TestOps /\ last.assertion.how = "throw")
    => /\ last.ended = "this"
       /\ Len(failures) > 0
       /\ LastOf(failures) = last.result

\* C5: when the assertion callback raises a fault carrying message m, the
\* recorded Result has passed = false and message = m, actual and expected are
\* left unset, and it is the newest failure and is not among the successes.
C5_FaultBecomesFailure ==
  (last.op \in TestOps /\ last.assertion.how = "throw"
     /\ last.assertion.val.t = "object")
    => /\ last.ended = "this"
       /\ last.result.passed = False
       /\ last.result.message = last.assertion.message
       /\ last.result.actual = Null
       /\ last.result.expected = Null
       /\ Len(failures) > 0
       /\ LastOf(failures) = last.result
       /\ ~InSeq(last.result, successes)

C5_Witness ==
  /\ last.op = "test"
  /\ last.assertion = ThrowsError(Str("boom"))
  /\ Len(failures) = 2
  /\ LastOf(failures).message = Str("boom")
  /\ Len(successes) = 0

\* C6: a returned boolean b gives passed = b with actual, expected and message
\* unset; a returned object gives passed = its passed field (false when the
\* field is absent) and actual, expected and message copied verbatim; any
\* other returned value gives a failing Result. The Result is the newest entry
\* of the pass accumulator exactly when its passed holds, and of the failure
\* accumulator otherwise.
C6_ReturnValueClassified ==
  (last.op = "test" /\ last.assertion.how = "return")
    => LET a == last.assertion
           r == last.result
       IN /\ last.ended = "this"
          /\ a.val.t = "boolean"
               => (r.passed = a.val /\ r.actual = Null /\ r.expected = Null
                   /\ r.message = Null)
          /\ a.val.t = "object"
               => (/\ r.passed = (IF Nullish(a.passed) THEN False ELSE a.passed)
                   /\ r.actual = a.actual
                   /\ r.expected = a.expected
                   /\ r.message = a.message)
          /\ a.val.t \notin {"boolean", "object"} => ~Truthy(r.passed)
          /\ IF Truthy(r.passed)
               THEN /\ Len(successes) > 0
                    /\ LastOf(successes) = r
                    /\ ~InSeq(r, failures)
               ELSE /\ Len(failures) > 0
                    /\ LastOf(failures) = r
                    /\ ~InSeq(r, successes)

C6_Witness ==
  /\ last.op = "test"
  /\ last.assertion = ReturnsObject(Undefined, Num("1"), Num("1"), Str("m"))
  /\ Len(failures) = 1
  /\ failures[1].passed = False
  /\ failures[1].actual = Num("1")
  /\ failures[1].message = Str("m")
  /\ Len(successes) = 1

\* C7: every test() call appends exactly one Result to exactly one of the two
\* accumulators, so length(successes) + length(failures) is the number of
\* test invocations so far.
C7_OneResultPerInvocation ==
  Len(successes) + Len(failures) = nTests

\* C8: exit() calls summary() exactly once and then terminates the process,
\* with status 0 iff the failure accumulator is empty and 1 otherwise, at
\* every verbosity; the summary rendering comes before the termination.
C8_ExitAfterSummary ==
  /\ (exitCode # -1) <=> (last.op = "exit")
  /\ last.op = "exit"
       => /\ CountCalls("this", "summary") = 1
          /\ calls[1] = Call("this", "summary", <<>>)
          /\ CountCalls("process", "exit") = 1
          /\ LastOf(calls) =
               Call("process", "exit", <<IF Len(failures) = 0 THEN 0 ELSE 1>>)
          /\ exitCode = IF Len(failures) = 0 THEN 0 ELSE 1
          /\ CountCalls("reporter", "summary") = IF verbosity >= NORMAL THEN 1 ELSE 0
          /\ verbosity >= NORMAL
               => (calls[2].tgt = "reporter" /\ calls[2].name = "summary")

C8_Witness ==
  /\ last.op = "exit"
  /\ exitCode = 1
  /\ verbosity = NORMAL
  /\ Len(failures) = 1
  /\ Len(successes) = 1
  /\ Len(calls) = 3

\* C9: summary() calls the reporter's summary exactly once when verbosity >=
\* NORMAL and makes no reporter call below NORMAL; it calls failureDetails
\* with the failure accumulator iff verbosity >= VERBOSE and a failure exists,
\* and that call comes after the summary call.
C9_SummaryForwarding ==
  last.op = "summary"
    => /\ verbosity < NORMAL => calls = <<>>
       /\ verbosity >= NORMAL
            => /\ Len(calls) >= 1
               /\ calls[1].tgt = "reporter"
               /\ calls[1].name = "summary"
               /\ CountCalls("reporter", "summary") = 1
       /\ CountCalls("reporter", "failureDetails") =
            IF verbosity >= VERBOSE /\ Len(failures) > 0 THEN 1 ELSE 0
       /\ (verbosity >= VERBOSE /\ Len(failures) > 0)
            => (/\ Len(calls) = 2
                /\ calls[2] = Call("reporter", "failureDetails", <<failures>>))
       /\ ReporterCallCount = Len(calls)
       /\ Len(calls) <= 2

C9_Witness ==
  /\ last.op = "summary"
  /\ verbosity = VERBOSE
  /\ Len(failures) = 2
  /\ Len(calls) = 2
  /\ calls[2].name = "failureDetails"

C11_SilentIsSilent ==
  /\ (options.given /\ options.v = 0) => verbosity = SILENT
  /\ verbosity = SILENT => (ReporterCallCount = 0 /\ output = <<>>)

C11_Witness ==
  /\ options.given /\ options.v = 0
  /\ reporter = "terminal"
  /\ last.op = "error"
  /\ nTests = MaxOut

\* the level from which each output operation is forwarded
ForwardedFrom ==
  [op \in {"header", "info", "warn", "code", "javascript", "diff", "log",
           "success", "error"} |->
     CASE op \in {"header", "info", "warn"} -> NORMAL
       [] op = "error" -> QUIET
       [] OTHER -> VERBOSE]

\* the reporter method an output operation forwards to
ForwardsTo(op) == IF op = "javascript" THEN "code" ELSE op

\* C12: header, info and warn make exactly one call of the corresponding
\* reporter method at NORMAL and above, code, javascript, diff, log and
\* success at VERBOSE and above, error at QUIET and above; below its level an
\* operation makes no reporter call.
C12_ForwardedOnceFromItsLevel ==
  last.op \in DOMAIN ForwardedFrom =>
    IF verbosity >= ForwardedFrom[last.op]
      THEN /\ ReporterCallCount = 1
           /\ CountCalls("reporter", ForwardsTo(last.op)) = 1
      ELSE ReporterCallCount = 0

C12_Witness ==
  /\ last.op = "error"
  /\ verbosity = QUIET
  /\ reporter = "custom"
  /\ CountCalls("reporter", "error") = 1

\* the last operation was an assertEqual or assertArraysEqual that returned
Asserted(op) == last.op = op /\ last.ended = "this"

\* the Result carries the two arguments of the assertion
CarriesArguments ==
  /\ last.result.actual = last.assertion.actual
  /\ last.result.expected = last.assertion.expected

\* C13 as stated: assertEqual(x, x, d) records a passing Result without a
\* message for every value x, assertEqual(x, y, d) with x !== y a failing one
\* with the message "Values do not match", and the Result carries actual = x
\* and expected = the second argument.
C13_EveryValueEqualsItself ==
  Asserted("assertEqual") =>
    /\ last.assertion.actual = last.assertion.expected =>
         (last.result.passed = True /\ Nullish(last.result.message))
    /\ ~StrictEquals(last.assertion.actual, last.assertion.expected) =>
         /\ last.result.passed = False
         /\ last.result.message = Str("Values do not match")
    /\ CarriesArguments

\* C13 amended: assertEqual(x, x, d) records a passing Result without a
\* message for every value x other than NaN, assertEqual(x, y, d) with
\* x !== y, which includes assertEqual(NaN, NaN, d), a failing one with the
\* message "Values do not match"; the Result carries actual = x and expected =
\* the second argument.
C13_StrictEquality ==
  Asserted("assertEqual") =>
    /\ (last.assertion.actual = last.assertion.expected
          /\ last.assertion.actual # NaN) =>
         (last.result.passed = True /\ Nullish(last.result.message))
    /\ ~StrictEquals(last.assertion.actual, last.assertion.expected) =>
         /\ last.result.passed = False
         /\ last.result.message = Str("Values do not match")
    /\ CarriesArguments

C13_Witness ==
  /\ Asserted("assertEqual")
  /\ last.assertion.actual = Obj("a123")
  /\ last.assertion.expected = Obj("a123")
  /\ last.result.passed = True
  /\ Len(successes) = 1

\* the elements of the array x, an index that holds no element read as undefined
Elements(x) == [i \in 1..Len(ArrayHeap[x.v]) |-> Get(ArrayHeap[x.v], i)]

\* C14: assertArraysEqual(actual, expected, d) records a passing Result if and
\* only if both arguments are arrays of the same length that are strictly
\* equal at every position, nested arrays compared by reference; a failing
\* Result carries the message "Arrays do not match".
C14_PassesIffEqualAtEveryPosition ==
  Asserted("assertArraysEqual") =>
    LET a == last.assertion.actual
        b == last.assertion.expected
    IN /\ last.result.passed = True <=>
            /\ IsArray(a)
            /\ IsArray(b)
            /\ Len(Elements(a)) = Len(Elements(b))
            /\ \A i \in 1..Len(Elements(a)) :
                 StrictEquals(Elements(a)[i], Elements(b)[i])
       /\ last.result.passed # True =>
            last.result.message = Str("Arrays do not match")

\* summary() has handed Stats to the reporter in the last operation
StatsReported == CountCalls("reporter", "summary") = 1

\* the Stats of that call
ReportedStats ==
  SelectSeq(calls, LAMBDA c : c.tgt = "reporter" /\ c.name = "summary")[1].args[1]

\* h hundredths written with two decimals: 5000 is "50.00"
TwoDecimals(h) ==
  ToString(h \div 100) \o "." \o ToString((h % 100) \div 10) \o ToString(h % 10)

\* text is the value of 100 * p / t rounded to the nearest hundredth
IsRate(text, p, t) ==
  \E h \in {(10000 * p) \div t, (10000 * p) \div t + 1} :
    /\ text = Str(TwoDecimals(h))
    /\ 2 * (h * t - 10000 * p) <= t
    /\ 2 * (10000 * p - h * t) <= t

\* C15: the Stats summary() hands to the reporter have passed = length of the
\* pass accumulator, failed = length of the failure accumulator, total =
\* passed + failed = number of test invocations and passRate = 100 * passed /
\* total; after one passing and one failing test they are total = 2, passed =
\* 1, failed = 1, passRate = "50.00", and summary() returns false.
C15_StatsCountEveryInvocation ==
  StatsReported =>
    /\ ReportedStats.passed = Len(successes)
    /\ ReportedStats.failed = Len(failures)
    /\ ReportedStats.total = ReportedStats.passed + ReportedStats.failed
    /\ ReportedStats.total = nTests
    /\ ReportedStats.total > 0 =>
         IsRate(ReportedStats.passRate, ReportedStats.passed, ReportedStats.total)
    /\ (nTests = 2 /\ nFailing = 1) =>
         /\ ReportedStats.total = 2
         /\ ReportedStats.passed = 1
         /\ ReportedStats.failed = 1
         /\ ReportedStats.passRate = Str("50.00")
         /\ last.op = "summary" => last.value = False

\* the percentages from 0.00 to 100.00 in their two-decimal form
TwoDecimalRates == {Str(TwoDecimals(h)) : h \in 0..10000}

\* C16: the pass rate in the Stats passed to the reporter has the two-decimal
\* form in every run, a run without any test (total = 0) included.
C16_PassRateHasTwoDecimals ==
  StatsReported => ReportedStats.passRate \in TwoDecimalRates

ChainedOps ==
  {"header", "section", "subsection", "code", "javascript", "test", "assertEqual",
   "assertArraysEqual", "diff", "log", "info", "warn", "error", "success"}

\* C17: header, section, subsection, code, javascript, test, assertEqual,
\* assertArraysEqual, diff, log, info, warn, error and success each return the
\* suite they were called on, at every verbosity and for every outcome of a
\* test (pass, fail, raised fault).
C17_ChainNeverInterrupted ==
  last.op \in ChainedOps => (last.ended = "this" /\ last.value = Obj("suite"))

\* the built-in reporter a format value names
BuiltIn(value) ==
  IF value \in {"markdown", "terminal", "ascii"} THEN value ELSE "terminal"

\* arg has the shape --format=<value>
IsFormatArgument(arg) == Len(arg) >= 2 /\ arg[1] = "--format" /\ arg[2] = "="

\* the <value> of --format=<value>
FormatArgumentValue(arg) == IF Len(arg) >= 3 THEN arg[3] ELSE ""

\* the reporter the options and the process arguments select
Selected ==
  IF ~Nullish(options.reporter) THEN "custom"
  ELSE IF ~Nullish(options.format) THEN BuiltIn(options.format.v)
  ELSE IF \E i \in 1..Len(options.argv) : IsFormatArgument(options.argv[i])
    THEN LET i == CHOOSE i \in 1..Len(options.argv) :
                    IsFormatArgument(options.argv[i])
         IN BuiltIn(FormatArgumentValue(options.argv[i]))
  ELSE "terminal"

\* C18: an explicit options.reporter is the suite's reporter whatever
\* options.format and the process arguments say; otherwise options.format
\* selects the built-in reporter, an unrecognized value giving the terminal
\* reporter; without options.format an argument --format=<value> selects it,
\* and with neither the terminal reporter is used. The reporter chosen at
\* construction is never replaced.
C18_ReporterSelection ==
  /\ [](reporter = Selected)
  /\ [][reporter' = reporter /\ options' = options]_vars

C18_Witness ==
  /\ Nullish(options.reporter)
  /\ options.format = Null
  /\ options.argv = << <<"--verbose">>, <<"--format", "=", "ascii">> >>
  /\ reporter = "ascii"
  /\ last.op = "log"
  /\ output = <<"a b">>

\* k spaces
RECURSIVE Blanks(_)
Blanks(k) == IF k = 0 THEN "" ELSE " " \o Blanks(k - 1)

\* C19: pad(text, w) is text followed by max(0, w - length(text)) spaces: it
\* starts with text, has length max(length(text), w), and is text unchanged
\* when length(text) >= w.
C19_PadAppendsSpaces ==
  last.op = "_pad" =>
    LET text == calls[1].args[1]
        w == calls[1].args[2]
    IN /\ last.value = Str(text \o Blanks(Max(0, w - Len(text))))
       /\ Len(last.value.v) = Max(Len(text), w)
       /\ Len(text) >= w => last.value = Str(text)

C19_Witness ==
  /\ last.op = "_pad"
  /\ calls[1].args = <<"abc", 10>>
  /\ last.value = Str("abc       ")

\* the "no variance" marker as each reporter variant writes it
Marker(rep) ==
  CASE rep = "ascii" -> "  [NO VARIANCE DETECTED]"
    [] rep = "terminal" -> "  <GREEN>[NO VARIANCE DETECTED]<RESET>"
    [] rep = "markdown" -> "**[NO VARIANCE DETECTED]**"

\* one line of the expected or of the actual rendering in each variant
ExpectedLine(rep, line) ==
  CASE rep = "ascii" -> "  - " \o line
    [] rep = "terminal" -> "  <RED>- " \o line \o "<RESET>"
    [] rep = "markdown" -> "- " \o line

ActualLine(rep, line) ==
  CASE rep = "ascii" -> "  + " \o line
    [] rep = "terminal" -> "  <GREEN>+ " \o line \o "<RESET>"
    [] rep = "markdown" -> "+ " \o line

Occurrences(line, lines) == Cardinality({i \in 1..Len(lines) : lines[i] = line})

\* seq[from], ..., seq[from + Len(part) - 1] is part
OccursAt(part, seq, from) ==
  /\ from + Len(part) - 1 <= Len(seq)
  /\ \A k \in 1..Len(part) : seq[from + k - 1] = part[k]

\* C20: in every reporter variant diff(expected, actual, label), with a text
\* for a label or none, writes the "no variance" marker exactly once and no
\* line of either rendering when the serialized forms of expected and actual
\* are the same text; when they differ it writes every line of the expected
\* rendering, then every line of the actual rendering, and no marker.
C20_MarkerOrBothRenderings ==
  (last.op = "reporter.diff" /\ calls[1].args[3] # Null) =>
    LET e == Stringify(calls[1].args[1])
        a == Stringify(calls[1].args[2])
        es == [i \in 1..Len(e) |-> ExpectedLine(reporter, e[i])]
        as == [i \in 1..Len(a) |-> ActualLine(reporter, a[i])]
    IN /\ last.ended = "return"
       /\ IF e = a
            THEN /\ Occurrences(Marker(reporter), output) = 1
                 /\ \A i \in 1..Len(output) :
                      /\ \A k \in 1..Len(es) : output[i] # es[k]
                      /\ \A k \in 1..Len(as) : output[i] # as[k]
            ELSE /\ Occurrences(Marker(reporter), output) = 0
                 /\ \E i, j \in 1..Len(output) :
                      /\ OccursAt(es, output, i)
                      /\ OccursAt(as, output, j)
                      /\ i + Len(es) <= j

C20_Witness ==
  /\ last.op = "reporter.diff"
  /\ reporter = "markdown"
  /\ calls[1].args = <<Obj("a12"), Str("[\n  1,\n  2\n]"), Undefined>>
  /\ Occurrences(Marker("markdown"), output) = 1
  /\ output[2] = "### DIFFERENTIAL ANALYSIS"

\* C21: summary() leaves sectionNumber, testNumber and both accumulators
\* unchanged at every verbosity, and a summary() that follows a summary()
\* returns the same boolean.
C21_SummaryIdempotent ==
  [][last'.op = "summary"
       => /\ sectionNumber' = sectionNumber
          /\ testNumber' = testNumber
          /\ failures' = failures
          /\ successes' = successes
          /\ last'.value \in {True, False}
          /\ last.op = "summary" => last'.value = last.value]_vars

C21_Witness ==
  /\ last.op = "summary"
  /\ last.value = False
  /\ Len(failures) = 1
  /\ Len(successes) = 1
  /\ verbosity = VERBOSE
  /\ calls[1].args[1].duration = MaxDuration

\* a subsection() step that leaves both counters alone and, from NORMAL
\* upwards, makes the single reporter call subsection(sectionNumber, number,
\* title)
SubsectionForwards(number) ==
  /\ sectionNumber' = sectionNumber
  /\ testNumber' = testNumber
  /\ IF verbosity >= NORMAL
       THEN /\ Len(calls') = 1
            /\ calls'[1].tgt = "reporter"
            /\ calls'[1].name = "subsection"
            /\ calls'[1].args[1] = sectionNumber
            /\ calls'[1].args[2] = number
            /\ calls'[1].args[3] \in Titles
       ELSE calls' = <<>>

\* C22 as stated: subsection(title) at verbosity >= NORMAL forwards the
\* suite's current section number and current test number, as held at the
\* moment of the call, and at every verbosity leaves both counters unchanged.
C22_ForwardsCurrentTestNumber ==
  [][last'.op = "subsection" => SubsectionForwards(testNumber)]_vars

\* C22 amended: subsection(title) at verbosity >= NORMAL forwards the suite's
\* current section number and its current test number plus one, the number
\* the next test will get, and at every verbosity leaves both counters
\* unchanged.
C22_ForwardsNextTestNumber ==
  [][last'.op = "subsection" => SubsectionForwards(testNumber + 1)]_vars

C22_Witness ==
  /\ last.op = "subsection"
  /\ verbosity = NORMAL
  /\ sectionNumber = 1
  /\ testNumber = 1
  /\ calls = <<Call("reporter", "subsection", <<1, 2, "T">>)>>

\* the headline of a failing test in each reporter variant
FailHeadline(rep, testId, description) ==
  CASE rep = "ascii" -> "[FAIL] TEST " \o testId \o ": " \o description
    [] rep = "terminal" ->
         "<RED>x TEST " \o testId \o " FAILED<RESET>: " \o description
    [] rep = "markdown" -> "- x **TEST " \o testId \o " FAILED**: " \o description

\* C23: a failing Result in which expected or actual is unset is rendered
\* with its headline and, when it has a message, its reason, and with nothing
\* else, in every reporter variant: the comparison lines are written only
\* when the Result carries both values.
C23_ComparisonOnlyWithBothValues ==
  (/\ last.op = "test"
   /\ last.ended = "this"
   /\ reporter # "custom"
   /\ CountCalls("reporter", "testFailed") = 1
   /\ (Nullish(last.result.expected) \/ Nullish(last.result.actual)))
    => /\ output[1] = FailHeadline(reporter, last.result.id, last.result.description)
       /\ Len(output) = 1 + (IF Nullish(last.result.message) THEN 0 ELSE 1)

\* k dashes
RECURSIVE Dashes(_)
Dashes(k) == IF k <= 0 THEN "" ELSE "-" \o Dashes(k - 1)

\* the line that carries the label of a diff in each reporter variant
LabelLine(rep, label) ==
  CASE rep = "ascii" -> "+-[ " \o label \o " ]" \o Dashes(74 - Len(label))
    [] rep = "terminal" ->
         "<YELLOW>+-[ <BOLD>" \o label \o "<RESET><YELLOW> ]"
           \o Dashes(74 - Len(label)) \o "<RESET>"
    [] rep = "markdown" -> "### " \o label

\* C24: the suite's diff(expected, actual) without a label, at verbosity >=
\* VERBOSE, completes without raising on each built-in reporter, renders the
\* comparison under the default label "DIFFERENTIAL ANALYSIS", and returns the
\* suite.
C24_DiffWithoutLabel ==
  (/\ last.op = "diff"
   /\ verbosity >= VERBOSE
   /\ reporter # "custom"
   /\ calls[1].args[3] = Null)
    => /\ last.ended = "this"
       /\ last.value = Obj("suite")
       /\ Occurrences(LabelLine(reporter, "DIFFERENTIAL ANALYSIS"), output) = 1

\* the Results stored in the suite, both accumulators together
Stored == successes \o failures

\* C25: after any sequence of section() and test() calls, at any verbosity,
\* no two Results stored in the suite have the same id.
C25_IdsAreUnique ==
  \A i, j \in 1..Len(Stored) : Stored[i].id = Stored[j].id => i = j

C25_Witness ==
  /\ Len(successes) = 1
  /\ Len(failures) = 1
  /\ successes[1].id = "0.1"
  /\ failures[1].id = "1.1"
  /\ nSections = 1


\* the fields of the reporter-driven engine, as a legacy engine would hold them
Here ==
  [value |-> Undefined, verbosity |-> verbosity, testNumber |-> testNumber,
   sectionNumber |-> sectionNumber, failures |-> failures,
   successes |-> successes, console |-> 0]

\* the legacy engine l ended where the step of the reporter-driven engine
\* ended: same counters, same accumulators, and output from both or neither
SameAs(l) ==
  /\ l.verbosity = verbosity'
  /\ l.sectionNumber = sectionNumber'
  /\ l.testNumber = testNumber'
  /\ l.successes = successes'
  /\ l.failures = failures'
  /\ (l.console > 0) <=> (ReporterCalls(calls') # <<>>)
  /\ reporter \in {"ascii", "terminal", "markdown"} => ((l.console > 0) <=> (output' # <<>>))

\* the label of the code() call the step made; any label when the call was
\* not forwarded
LabelOf(label) ==
  \A i \in 1..Len(calls') : calls'[i].name = "code" => calls'[i].args[3] = label

\* C26: from every reachable state, each operation takes the legacy engine
\* of src/index.js and the reporter-driven engine to the same sectionNumber,
\* testNumber, pass accumulator and failure accumulator, summary() returns
\* the same boolean in both, and one writes output exactly when the other
\* does; the two engines, started alike and driven alike, therefore never
\* part
C26_EnginesAgree ==
  [][/\ last'.op = "header" => SameAs(Legacy_header(Here))
     /\ last'.op = "section" => SameAs(Legacy_section(Here))
     /\ last'.op = "subsection" => SameAs(Legacy_subsection(Here))
     /\ last'.op = "code"
          => \A label \in CodeLabels :
               LabelOf(label) => SameAs(Legacy_code(Here, label))
     /\ last'.op = "javascript"
          => \A label \in CodeLabels :
               LabelOf(label) => SameAs(Legacy_javascript(Here, label))
     /\ last'.op = "test"
          => /\ SameAs(Legacy_test(Here, last'.result.description, last'.assertion))
             /\ Legacy_test(Here, last'.result.description, last'.assertion).value
                  = last'.value
     /\ last'.op = "assertEqual"
          => SameAs(Legacy_assertEqual(Here, last'.assertion.actual,
                                       last'.assertion.expected,
                                       last'.result.description))
     /\ last'.op = "assertArraysEqual"
          => SameAs(Legacy_assertArraysEqual(Here, last'.assertion.actual,
                                             last'.assertion.expected,
                                             last'.result.description))
     /\ last'.op = "summary"
          => /\ SameAs(Legacy_summary(Here))
             /\ Legacy_summary(Here).value = last'.value
     /\ last'.op = "log" => SameAs(Legacy_log(Here))
     /\ last'.op = "info" => SameAs(Legacy_info(Here))
     /\ last'.op = "warn" => SameAs(Legacy_warn(Here))
     /\ last'.op = "error" => SameAs(Legacy_error(Here))
     /\ last'.op = "success" => SameAs(Legacy_success(Here))]_vars

\* both engines have stored a failure at QUIET, written it out, and the
\* summary() that follows is silent and false in both
C26_Witness ==
  /\ last.op = "summary"
  /\ verbosity = QUIET
  /\ last.value = False
  /\ calls = <<>>
  /\ Len(failures) = 1
  /\ Legacy_summary(Here).value = False
  /\ Legacy_summary(Here).console = 0
  /\ Legacy_test([Here EXCEPT !.failures = <<>>, !.testNumber = 0],
                 failures[1].description, ThrowsError(Str("boom"))).failures
       = failures


\* the methods that only forward to the reporter
ForwardingOps ==
  {"header", "subsection", "code", "javascript", "diff", "log", "info", "warn",
   "error", "success"}

\* C27: header, subsection, code, javascript, diff, log, info, warn, error
\* and success leave sectionNumber, testNumber and both accumulators as they
\* were, at every verbosity; test(), assertEqual() and assertArraysEqual()
\* leave sectionNumber alone and add exactly 1 to testNumber; section()
\* leaves both accumulators alone; sectionNumber never decreases
C27_OnlySectionAndTestChangeState ==
  [][/\ last'.op \in ForwardingOps
          => /\ sectionNumber' = sectionNumber
             /\ testNumber' = testNumber
             /\ successes' = successes
             /\ failures' = failures
     /\ last'.op \in TestOps
          => /\ sectionNumber' = sectionNumber
             /\ testNumber' = testNumber + 1
     /\ last'.op = "section"
          => /\ successes' = successes
             /\ failures' = failures
     /\ sectionNumber' >= sectionNumber]_vars

\* code() has been forwarded at VERBOSE after a section and a failed test
C27_Witness ==
  /\ last.op = "code"
  /\ verbosity = VERBOSE
  /\ ReporterCallCount = 1
  /\ sectionNumber = 1
  /\ testNumber = 1
  /\ Len(failures) = 1
  /\ successes = <<>>

=============================================================================
